---- MODULE Spec2Model ----
(***************************************************************************)
(* A model of the routine tracker app_gsheet.py: the session state (log,   *)
(* subjects), the two persisted tables it rewrites (log, subjects), and    *)
(* one action per script run (Streamlit reruns the whole script on every   *)
(* interaction; a button handler is part of that run).                     *)
(*                                                                         *)
(* Block names are Korean strings with emoji in the source.  They are      *)
(* written here as sequences of romanised whitespace-separated tokens, so  *)
(* that str.strip(), the tree marker test and the substring tests of       *)
(* get_lecture_increment are computed token by token:                      *)
(*   인강 ingang, 1강 1gang, 2강 2gang, 3강 3gang, 1~2강 1~2gang,           *)
(*   이어서 ieoseo, 오전 ojeon, 오후 ohu, 전반 jeonban, 후반 huban,          *)
(*   문풀 munpul, 복습 bokseup, 운동 undong, 샤워 syawo, 출석 chulseok,      *)
(*   └ (tree marker) "TREE", emoji as "(name)".                            *)
(* The time label and the note of a schedule item are display text only    *)
(* and are left out of the items.                                          *)
(***************************************************************************)
EXTENDS Integers, Sequences, FiniteSets, TLC

VARIABLES
    log,             \* st.session_state.log_df: the rows, in DataFrame order
    subjects,        \* st.session_state.subjects: the list of subject dicts
    storedLog,       \* the rows of the "log" worksheet
    storedSubjects,  \* the rows of the "subjects" worksheet
    config,          \* st.session_state.config
    storedConfig,    \* the rows of the "config" worksheet
    last,            \* the last script run: its operation, arguments, storage writes
    steps            \* the number of script runs so far

vars == <<log, subjects, storedLog, storedSubjects, config, storedConfig, last, steps>>

-----------------------------------------------------------------------------
(* Bounds *)

MaxDate == 4         \* dates are the days 1..MaxDate
MaxSteps == 2        \* script runs explored
MaxSubjects == 2     \* length of the subject list
MaxTicked == 1       \* checkbox patterns: at most MaxTicked boxes ticked, or all

Dates == 1..MaxDate
Today == MaxDate - 1     \* date.today(): one later (future) date exists
Phases == 1..4           \* PHASE_LABELS keys
DayTypes == {"weekday", "sat", "sun"}
Modes == {"normal", "low", "off"}

-----------------------------------------------------------------------------
(* Helpers on sequences *)

RECURSIVE SumSeq(_)
SumSeq(s) == IF s = <<>> THEN 0 ELSE Head(s) + SumSeq(Tail(s))

Range(s) == {s[i] : i \in 1..Len(s)}

Max(a, b) == IF a >= b THEN a ELSE b

\* "needle in name" for whitespace-separated tokens: a contiguous run
Contains(name, needle) ==
    \E i \in 0..(Len(name) - Len(needle)) :
        \A j \in 1..Len(needle) : name[i + j] = needle[j]

-----------------------------------------------------------------------------
(* Schedule templates *)

Item(name, category, minutes) ==
    [name |-> name, category |-> category, minutes |-> minutes]

TREE == "TREE"

WeekdaySchedule(phase) ==
       << Item(<<"gisang", "+", "junbi">>, "morning", 0),
          Item(<<"chulgeun", "idong">>, "morning", 0) >>
    \o (IF phase >= 1
        THEN << Item(<<"(coffee)", "achim", "kape", "chulseok">>, "study", 0) >>
        ELSE <<>>)
    \o (IF phase >= 2
        THEN << Item(<<TREE, "jeonnal", "ingang", "dasi", "bogi">>, "study", 30),
                Item(<<TREE, "bokseubyong", "munpul">>, "study", 30) >>
        ELSE <<>>)
    \o << Item(<<"(briefcase)", "hoesa">>, "work", 0),
          Item(<<"toegeun", "+", "jeonyeok">>, "rest", 0),
          Item(<<"jeonyeok", "hyusik">>, "rest", 0) >>
    \o (IF phase >= 1
        THEN << Item(<<"(chair)", "jeonyeok", "chulseok", "(anjgi)">>, "study", 0) >>
        ELSE <<>>)
    \o (IF phase = 1 THEN
          << Item(<<TREE, "ingang", "teureonohgi/chaek", "pyeonohgi">>, "study", 45),
             Item(<<"(lifter)", "undong", "30bun">>, "exercise", 0),
             Item(<<"(shower)", "syawo">>, "exercise", 0),
             Item(<<"chaeksang", "ap", "yuji">>, "study", 0) >>
        ELSE IF phase = 2 THEN
          << Item(<<"(books)", "ingang", "1gang">>, "study", 45),
             Item(<<"(lifter)", "undong", "30bun">>, "exercise", 0),
             Item(<<"(shower)", "syawo">>, "exercise", 0),
             Item(<<"(books)", "ingang", "ieoseo", "or", "bokseup">>, "study", 40) >>
        ELSE IF phase = 3 THEN
          << Item(<<"(books)", "ingang", "1gang">>, "study", 45),
             Item(<<"(pencil)", "1cha", "munpul">>, "study", 20),
             Item(<<"(lifter)", "undong", "30bun">>, "exercise", 0),
             Item(<<"(shower)", "syawo">>, "exercise", 0),
             Item(<<"(books)", "ingang", "2gang">>, "study", 45),
             Item(<<"(book)", "bokseup", "+", "jeongni">>, "study", 20) >>
        ELSE IF phase = 4 THEN
          << Item(<<"(books)", "ingang", "1gang">>, "study", 45),
             Item(<<"(pencil)", "1cha", "munpul">>, "study", 20),
             Item(<<"(lifter)", "undong", "30bun">>, "exercise", 0),
             Item(<<"(shower)", "syawo", "15bun">>, "exercise", 0),
             Item(<<"(books)", "ingang", "2gang">>, "study", 45),
             Item(<<"(pencil)", "2cha", "munpul">>, "study", 15),
             Item(<<"(books)", "ingang", "3gang">>, "study", 45),
             Item(<<"(pencil)", "magam", "munpul", "+", "jeongni">>, "study", 20) >>
        ELSE <<>>)
    \o << Item(<<"jayusigan", "+", "chwichim", "junbi">>, "rest", 0),
          Item(<<"(zzz)", "chwichim">>, "rest", 0) >>

WeekendSchedule(phase) ==
       << Item(<<"gisang", "+", "ssitgi", "+", "jeongni">>, "morning", 0) >>
    \o (IF phase >= 1
        THEN << Item(<<"(coffee)", "achim", "bokseup", "beullok">>, "study", 60) >>
        ELSE <<>>)
    \o (IF phase = 1 THEN
          << Item(<<"(books)", "ingang", "teulgi">>, "study", 60),
             Item(<<"jeomsim", "+", "hyusik">>, "rest", 0),
             Item(<<"(books)", "ingang", "or", "yuji">>, "study", 60) >>
        ELSE IF phase = 2 THEN
          << Item(<<"(books)", "ingang", "1~2gang">>, "study", 90),
             Item(<<"jeomsim", "+", "hyusik">>, "rest", 0),
             Item(<<"(books)", "ingang", "ieoseo">>, "study", 90),
             Item(<<"(book)", "gabyeoun", "munpul/bokseup">>, "study", 60) >>
        ELSE IF phase = 3 THEN
          << Item(<<"(books)", "ojeon", "ingang", "2gang">>, "study", 90),
             Item(<<"jeomsim">>, "rest", 0),
             Item(<<"(books)", "ohu", "jeonban", "ingang", "2gang">>, "study", 90),
             Item(<<"(pencil)", "munpul", "1cha">>, "study", 60),
             Item(<<"(books)", "ohu", "huban", "ingang">>, "study", 90) >>
        ELSE IF phase = 4 THEN
          << Item(<<"(coffee)", "achim", "bokseup">>, "study", 60),
             Item(<<"(books)", "ojeon", "ingang", "2gang">>, "study", 90),
             Item(<<"jeomsim", "+", "hyusik">>, "rest", 0),
             Item(<<"(books)", "ohu", "ingang", "2gang">>, "study", 90),
             Item(<<"(pencil)", "munpul", "1cha">>, "study", 60),
             Item(<<"(books)", "ohu", "huban", "ingang", "2gang">>, "study", 90),
             Item(<<"jeonyeok", "+", "hyusik">>, "rest", 0),
             Item(<<"(pencil)", "munpul", "2cha">>, "study", 90),
             Item(<<"(memo)", "jeongni", "+", "naeil", "junbi">>, "study", 30) >>
        ELSE <<>>)
    \o << Item(<<"jayusigan", "+", "sanchaek">>, "rest", 0) >>

get_detailed_schedule_CappedPhase(phase, day_type, mode) ==
    IF mode = "off"
    THEN << Item(<<"OFF", "modeu", "(wanjeon", "hyusik)">>, "rest", 0) >>
    ELSE IF day_type = "weekday" THEN WeekdaySchedule(IF phase > 3 THEN 3 ELSE phase)
         ELSE WeekendSchedule(IF phase > 3 THEN 3 ELSE phase)

get_detailed_schedule(phase, day_type, mode) ==
    IF mode = "off"
    THEN << Item(<<"OFF", "modeu", "(wanjeon", "hyusik)">>, "rest", 0) >>
    ELSE IF day_type = "weekday" THEN WeekdaySchedule(phase)
         ELSE WeekendSchedule(phase)

\* name.strip(), then the tree marker and the blanks after it removed
CleanName(name) == IF name # <<>> /\ Head(name) = TREE THEN Tail(name) ELSE name

IsCheckable(item) == item.category \in {"study", "exercise"}

get_checkable_blocks(phase, day_type, mode) ==
    LET schedule == get_detailed_schedule(phase, day_type, mode)
        Keep(item) == IsCheckable(item) /\ item.minutes >= 0
        kept == SelectSeq(schedule, Keep)
    IN  [i \in 1..Len(kept) |->
            [name |-> CleanName(kept[i].name), minutes |-> kept[i].minutes]]

-----------------------------------------------------------------------------
(* Lecture credits *)

get_lecture_increment(block_name) ==
    IF Contains(block_name, <<"ingang", "3gang">>) THEN 1
    ELSE IF Contains(block_name, <<"ingang", "2gang">>) THEN
        (IF \/ Contains(block_name, <<"ojeon", "ingang", "2gang">>)
            \/ Contains(block_name, <<"ohu", "ingang", "2gang">>)
            \/ Contains(block_name, <<"huban", "ingang", "2gang">>)
         THEN 2 ELSE 1)
    ELSE IF \/ Contains(block_name, <<"ingang", "1gang">>)
            \/ Contains(block_name, <<"ingang", "1~2gang">>)
            \/ Contains(block_name, <<"ingang", "ieoseo">>)
         THEN 1
    ELSE 0

-----------------------------------------------------------------------------
(* Log rows and subjects *)

NA == <<>>                 \* pd.NA in the subject column; a set subject is <<name>>

SubjectNames == {"minbeop", "hyeongbeop"}      \* 민법 (the seed subject), 형법
SeedTotal == 220
NewTotal == 100
MinTotal == 1                                  \* min_value of "총 강의 수"
Totals == {MinTotal, NewTotal, SeedTotal}      \* values typed into "총 강의 수"
ManualCompleted == {0, 10}                     \* values typed into "완료 강의 수"
DefaultCondition == [energy |-> 3, focus |-> 3, note |-> ""]   \* slider defaults
EarlierCondition == [energy |-> 5, focus |-> 2, note |-> "memo"]

DefaultSubjects ==
    << [name |-> "minbeop", total_lectures |-> SeedTotal,
        completed_lectures |-> 0, active |-> TRUE] >>

RowsOf(rows, d) == SelectSeq(rows, LAMBDA r : r.date = d)

-----------------------------------------------------------------------------
(* Subject progress *)

lecture_credits_from_rows_AllRows(rows) ==
    SumSeq([i \in 1..Len(rows) |-> get_lecture_increment(rows[i].block)])

lecture_credits_from_rows(rows) ==
    IF rows = <<>> THEN 0
    ELSE LET done == SelectSeq(rows, LAMBDA r : r.done = TRUE)
         IN  SumSeq([i \in 1..Len(done) |-> get_lecture_increment(done[i].block)])

\* a function from the subject names of the log to their credits
compute_subject_progress(log_df) ==
    IF log_df = <<>> THEN <<>>
    ELSE LET named == {i \in 1..Len(log_df) : log_df[i].subject # NA}
             keys == {log_df[i].subject[1] : i \in named} \ {""}
         IN  [n \in keys |->
                lecture_credits_from_rows(
                    SelectSeq(log_df, LAMBDA r : r.subject = <<n>>))]

SyncedSubjects_Assign(log_df, subjs) ==
    [i \in 1..Len(subjs) |->
        IF subjs[i].name \in DOMAIN compute_subject_progress(log_df)
        THEN [subjs[i] EXCEPT !.completed_lectures =
                                compute_subject_progress(log_df)[subjs[i].name]]
        ELSE subjs[i]]

SyncedSubjects_Clamped(log_df, subjs) ==
    [i \in 1..Len(subjs) |->
        IF subjs[i].name \in DOMAIN compute_subject_progress(log_df)
        THEN [subjs[i] EXCEPT !.completed_lectures =
                LET new_val == Max(compute_subject_progress(log_df)[subjs[i].name], @)
                IN  IF new_val > subjs[i].total_lectures
                    THEN Max(@, subjs[i].total_lectures) ELSE new_val]
        ELSE subjs[i]]

\* the subjects after the loop of sync_subjects_with_log
SyncedSubjects(log_df, subjs) ==
    LET progress == compute_subject_progress(log_df)
    IN  [i \in 1..Len(subjs) |->
            IF subjs[i].name \in DOMAIN progress
            THEN [subjs[i] EXCEPT !.completed_lectures =
                                    Max(progress[subjs[i].name], @)]
            ELSE subjs[i]]

-----------------------------------------------------------------------------
(* Attendance streak *)

\* the loop over sorted(unique dates, reverse=True): dates after today are
\* skipped, the first date without a done non-OFF row ends the count
RECURSIVE StreakFrom(_, _)
StreakFrom(log_df, ds) ==
    IF ds = {} THEN 0
    ELSE LET d == CHOOSE x \in ds : \A y \in ds : y <= x
             day_rows == RowsOf(log_df, d)
         IN  IF day_rows = <<>> THEN 0
             ELSE IF \E i \in 1..Len(day_rows) :
                        day_rows[i].done = TRUE /\ day_rows[i].block # <<"OFF">>
                  THEN 1 + StreakFrom(log_df, ds \ {d})
                  ELSE 0

streak(log_df, today) ==
    StreakFrom(log_df, {d \in {log_df[i].date : i \in 1..Len(log_df)} : d <= today})

-----------------------------------------------------------------------------
(* The routine tab: widgets of a script run *)

\* d.weekday(): day 1 is a Thursday, so Today = MaxDate - 1 = 3 is a Saturday
WeekdayOf(d) == (d + 2) % 7

get_day_type(d) ==
    IF WeekdayOf(d) < 5 THEN "weekday"
    ELSE IF WeekdayOf(d) = 5 THEN "sat" ELSE "sun"

\* the keys of a dict filled in this order: a repeated key keeps its first place
RECURSIVE DictKeys(_)
DictKeys(names) ==
    IF names = <<>> THEN <<>>
    ELSE LET front == DictKeys(SubSeq(names, 1, Len(names) - 1))
             n == names[Len(names)]
         IN  IF n \in Range(front) THEN front ELSE Append(front, n)

\* the keys of checkbox_states: one checkbox per study/exercise item
CheckboxKeys(schedule) ==
    LET shown == SelectSeq(schedule, IsCheckable)
    IN  DictKeys([i \in 1..Len(shown) |-> CleanName(shown[i].name)])

\* block_meta[block]: every item of the schedule writes its entry, the last wins
BlockMeta(schedule, block) ==
    LET at == {i \in 1..Len(schedule) : CleanName(schedule[i].name) = block}
        i == CHOOSE x \in at : \A y \in at : y <= x
    IN  [minutes |-> schedule[i].minutes, category |-> schedule[i].category]

\* subject_options: the names of the active subjects, in list order
SubjectOptions(subjs) ==
    LET active_subj == SelectSeq(subjs, LAMBDA x : x.active)
    IN  [i \in 1..Len(active_subj) |-> active_subj[i].name]

NoSubject == "(none)"      \* the placeholder option of the disabled selectbox

CheckedRow_AlwaysMinutes(a, subject_options, block, done, meta) ==
    [date |-> a.date, phase |-> a.phase, day_type |-> a.day_type,
     mode |-> a.mode, block |-> block, done |-> done,
     estimated_minutes |-> meta.minutes,
     energy |-> a.cond.energy, focus |-> a.cond.focus, note |-> a.cond.note,
     subject |-> IF meta.category = "study" /\ subject_options # <<>>
                 THEN <<a.subject>> ELSE NA]

CheckedRow_AnyCategory(a, subject_options, block, done, meta) ==
    [date |-> a.date, phase |-> a.phase, day_type |-> a.day_type,
     mode |-> a.mode, block |-> block, done |-> done,
     estimated_minutes |-> IF done THEN meta.minutes ELSE 0,
     energy |-> a.cond.energy, focus |-> a.cond.focus, note |-> a.cond.note,
     subject |-> IF subject_options # <<>> THEN <<a.subject>> ELSE NA]

\* the row of one item of checkbox_states
CheckedRow(a, subject_options, block, done, meta) ==
    [date |-> a.date, phase |-> a.phase, day_type |-> a.day_type,
     mode |-> a.mode, block |-> block, done |-> done,
     estimated_minutes |-> IF done THEN meta.minutes ELSE 0,
     energy |-> a.cond.energy, focus |-> a.cond.focus, note |-> a.cond.note,
     subject |-> IF meta.category = "study" /\ subject_options # <<>>
                 THEN <<a.subject>> ELSE NA]

\* one row per item of checkbox_states, in the order of its keys
CheckedRows(a, subject_options, schedule, keys) ==
    [i \in 1..Len(keys) |->
        CheckedRow(a, subject_options, keys[i], keys[i] \in a.ticked,
                   BlockMeta(schedule, keys[i]))]

CheckedRowsOf(a, subject_options, schedule) ==
    CheckedRows(a, subject_options, schedule, CheckboxKeys(schedule))

NewRows_NoOffRow(a, subject_options) ==
    CheckedRowsOf(a, subject_options,
                  get_detailed_schedule(a.phase, a.day_type, a.mode))

\* new_rows of the save handler; a.ticked is the set of ticked checkbox keys
NewRows(a, subject_options) ==
    IF a.mode = "off" THEN
        << [date |-> a.date, phase |-> a.phase, day_type |-> a.day_type,
            mode |-> a.mode, block |-> <<"OFF">>, done |-> TRUE,
            estimated_minutes |-> 0, energy |-> a.cond.energy,
            focus |-> a.cond.focus, note |-> a.cond.note, subject |-> NA] >>
    ELSE CheckedRowsOf(a, subject_options,
                       get_detailed_schedule(a.phase, a.day_type, a.mode))

\* pd.concat([log_df, pd.DataFrame(new_rows)]) under "if new_rows"
Concat_Twice(kept, new_rows) == kept \o new_rows \o new_rows

Concat(kept, new_rows) == IF new_rows # <<>> THEN kept \o new_rows ELSE kept

ReplaceDate_Append(log_df, a, subject_options) ==
    Concat(log_df, NewRows(a, subject_options))

ReplaceDate_WrongFilter(log_df, a, subject_options) ==
    Concat(SelectSeq(log_df, LAMBDA r : r.date > a.date),
           NewRows(a, subject_options))

\* log_df after the handler's filter and concat
ReplaceDate(log_df, a, subject_options) ==
    Concat(SelectSeq(log_df, LAMBDA r : ~(r.date = a.date)),
           NewRows(a, subject_options))

-----------------------------------------------------------------------------
(* Storage writes.  A script run is a record of the session and the tables, *)
(* the writes it has completed and the call that raised, if any; after a    *)
(* raise nothing more of the script runs (failed: the call, at: the part of  *)
(* the script).  fault names the storage call that raises in this run and   *)
(* whether the sheet was already cleared.                                   *)

NoFault == [call |-> "none", cleared |-> FALSE]
Faults ==
    {NoFault} \cup [call : {"save_subjects", "save_log"}, cleared : BOOLEAN]

RunOf(l, sj, sl, ssj) ==
    [log |-> l, subjects |-> sj, storedLog |-> sl, storedSubjects |-> ssj,
     writes |-> <<>>, failed |-> "none", at |-> "none"]

\* save_subjects: ws.clear(), the header, then one append_row per subject
save_subjects(run, subjs, fault, part) ==
    IF run.failed # "none" THEN run
    ELSE IF fault.call = "save_subjects"
    THEN [run EXCEPT !.failed = "save_subjects", !.at = part,
                     !.storedSubjects = IF fault.cleared THEN <<>> ELSE @]
    ELSE [run EXCEPT !.storedSubjects = subjs,
                     !.writes = Append(@, <<part, "subjects">>)]

\* a worksheet cell as get_all_records returns it: a number, or text that is
\* not a number (the empty cell included)
NumCell(n) == <<n>>
TextCell == <<>>

\* the row as written: fillna("") turns a missing subject into "", the phase
\* is a numeric cell
StoredRow(r) ==
    [r EXCEPT !.subject = IF @ = NA THEN <<"">> ELSE @, !.phase = NumCell(@)]

\* save_log: ws.clear(), the header, then all rows in one append_rows
save_log(run, fault, part) ==
    IF run.failed # "none" THEN run
    ELSE IF fault.call = "save_log"
    THEN [run EXCEPT !.failed = "save_log", !.at = part,
                     !.storedLog = IF fault.cleared THEN <<>> ELSE @]
    ELSE [run EXCEPT !.storedLog = [i \in 1..Len(run.log) |-> StoredRow(run.log[i])],
                     !.writes = Append(@, <<part, "log">>)]

\* the tail of sync_subjects_with_log: the dicts were updated in place and
\* are saved when one changed
StoreSynced(run, synced, fault, part) ==
    IF synced # run.subjects
    THEN save_subjects([run EXCEPT !.subjects = synced], synced, fault, part)
    ELSE run

sync_subjects_with_log(run, fault, part) ==
    IF run.failed # "none" \/ run.subjects = <<>> THEN run
    ELSE StoreSynced(run, SyncedSubjects(run.log, run.subjects), fault, part)

-----------------------------------------------------------------------------
(* Script runs *)

\* the handler's first lines: log_df without the date's rows plus new_rows,
\* stored in st.session_state.log_df
Replaced(top, a) ==
    IF top.failed # "none" THEN top
    ELSE [top EXCEPT !.log = ReplaceDate(top.log, a, SubjectOptions(top.subjects))]

\* the save button: the script top (line 665), then the handler: the replace,
\* sync_subjects_with_log, save_log, st.rerun() (the script top again)
SaveHandler(run, a, fault) ==
    sync_subjects_with_log(
        save_log(
            sync_subjects_with_log(
                Replaced(sync_subjects_with_log(run, fault, "top"), a),
                fault, "handler"),
            fault, "handler"),
        fault, "rerun")

\* an edited widget of subject idx: subjects[idx] is replaced and saved
Edited(top, idx, new, fault) ==
    save_subjects([top EXCEPT !.subjects[idx] = new],
                  [top.subjects EXCEPT ![idx] = new], fault, "handler")

EditHandler(run, idx, new, fault) ==
    Edited(sync_subjects_with_log(run, fault, "top"), idx, new, fault)

\* the delete button of subject idx: subjects.pop(idx), save, st.rerun()
Pop(s, idx) == SubSeq(s, 1, idx - 1) \o SubSeq(s, idx + 1, Len(s))

Deleted(top, idx, fault) ==
    save_subjects([top EXCEPT !.subjects = Pop(@, idx)],
                  Pop(top.subjects, idx), fault, "handler")

DeleteHandler(run, idx, fault) ==
    sync_subjects_with_log(
        Deleted(sync_subjects_with_log(run, fault, "top"), idx, fault),
        fault, "rerun")

\* the add button: a non-empty name is appended, saved, st.rerun()
NewSubject(new_name, new_total) ==
    [name |-> new_name, total_lectures |-> new_total,
     completed_lectures |-> 0, active |-> TRUE]

Added(top, new_name, new_total, fault) ==
    IF new_name = "" THEN top
    ELSE sync_subjects_with_log(
            save_subjects(
                [top EXCEPT !.subjects = Append(@, NewSubject(new_name, new_total))],
                Append(top.subjects, NewSubject(new_name, new_total)),
                fault, "handler"),
            fault, "rerun")

AddHandler(run, new_name, new_total, fault) ==
    Added(sync_subjects_with_log(run, fault, "top"), new_name, new_total, fault)

-----------------------------------------------------------------------------
(* Inputs *)

\* checkbox patterns: the first k boxes ticked, k <= MaxTicked, or all of them
Ticks(keys) ==
    {Range(SubSeq(keys, 1, k)) : k \in 0..(IF MaxTicked < Len(keys)
                                           THEN MaxTicked ELSE Len(keys))}
        \cup {Range(keys)}

SubjectChoices(subjs) ==
    IF SubjectOptions(subjs) = <<>> THEN {NoSubject}
    ELSE Range(SubjectOptions(subjs))

CheckinArgs(d, p, dt, m, t, c, sb) ==
    [date |-> d, phase |-> p, day_type |-> dt, mode |-> m,
     ticked |-> t, cond |-> c, subject |-> sb]

-----------------------------------------------------------------------------
(* Configuration and loading.  Dates are day numbers; target_exam is shown   *)
(* only and is left out of the config.                                       *)

DEFAULT_CONFIG == [start_date |-> Today, auto_phase |-> TRUE, manual_phase |-> 1]

\* str(value).strip().lower() on the texts a cell of auto_phase holds here
Lower(text) ==
    CASE text = "TRUE" -> "true"
      [] text = "FALSE" -> "false"
      [] OTHER -> text

\* _parse_bool on a cell: a number is its truth value, a text is looked up
parse_bool(value, default) ==
    IF Len(value) = 2 THEN value[2] # 0
    ELSE IF Lower(value[1]) \in {"true", "1", "yes", "y", "t"} THEN TRUE
    ELSE IF Lower(value[1]) \in {"false", "0", "no", "n", "f", ""} THEN FALSE
    ELSE default

BoolText(text) == <<text>>       \* a text cell of auto_phase
BoolNum(n) == <<"num", n>>       \* a numeric cell of auto_phase

\* int(float(cell)) with the except branch for text that is not a number
IntOrDefault(cell, default) == IF cell = TextCell THEN default ELSE cell[1]

\* load_config: the first row of the sheet, or DEFAULT_CONFIG for an empty one
load_config(rows) ==
    IF rows = <<>> THEN DEFAULT_CONFIG
    ELSE [start_date |-> rows[1].start_date,
          auto_phase |-> parse_bool(rows[1].auto_phase, DEFAULT_CONFIG.auto_phase),
          manual_phase |-> IntOrDefault(rows[1].manual_phase,
                                        DEFAULT_CONFIG.manual_phase)]

\* save_config: ws.clear(), the header, the one row
save_config(cfg) ==
    << [start_date |-> cfg.start_date,
        auto_phase |-> BoolText(IF cfg.auto_phase THEN "TRUE" ELSE "FALSE"),
        manual_phase |-> NumCell(cfg.manual_phase)] >>

\* load_log: pd.to_numeric(phase, errors="coerce").fillna(0); an empty subject
\* cell stays the empty string
load_log(rows) ==
    [i \in 1..Len(rows) |-> [rows[i] EXCEPT !.phase = IntOrDefault(@, 0)]]

-----------------------------------------------------------------------------
(* The sidebar: the effective phase, day type and mode of a script run.  A   *)
(* widget the user has not touched has its default value; a disabled widget  *)
(* has its default value too.                                                *)

get_week_number(start_date, target_date) ==
    Max(1, ((target_date - start_date) \div 7) + 1)

get_phase_by_week_Shifted(week_num) ==
    IF week_num <= 2 THEN 1
    ELSE IF week_num <= 3 THEN 2
    ELSE IF week_num <= 6 THEN 3
    ELSE 4

get_phase_by_week(week_num) ==
    IF week_num <= 1 THEN 1
    ELSE IF week_num <= 3 THEN 2
    ELSE IF week_num <= 6 THEN 3
    ELSE 4

\* None, or <<context>> of the first row of the date
get_logged_day_context(log_df, target_date) ==
    IF RowsOf(log_df, target_date) = <<>> THEN <<>>
    ELSE << [phase |-> RowsOf(log_df, target_date)[1].phase,
             day_type |-> RowsOf(log_df, target_date)[1].day_type,
             mode |-> RowsOf(log_df, target_date)[1].mode] >>

Untouched == "untouched"      \* a selectbox or radio left at its default
NoPick == 0                   \* the phase selectbox left at its default

\* the widget values the user brings to a script run
Widgets(d, use, dt, ph, m, ref) ==
    [date |-> d, use_saved_ctx |-> use, day_type |-> dt, phase |-> ph,
     mode |-> m, week_ref |-> ref]

Chosen(pick, default) == IF pick = Untouched THEN default ELSE pick

Effective(saved_ctx, cfg, w) ==
    LET opted == saved_ctx # <<>> /\ w.use_saved_ctx
        selected_week == get_week_number(cfg.start_date, w.date)
        default_day_type ==
            IF saved_ctx # <<>> THEN saved_ctx[1].day_type ELSE get_day_type(w.date)
        day_type_default ==
            IF default_day_type \in DayTypes THEN default_day_type ELSE "weekday"
        default_mode ==
            IF saved_ctx # <<>> /\ saved_ctx[1].mode \in Modes
            THEN saved_ctx[1].mode ELSE "normal"
        effective_phase ==
            IF opted THEN saved_ctx[1].phase
            ELSE IF cfg.auto_phase
            THEN (IF w.phase = NoPick THEN get_phase_by_week(selected_week)
                  ELSE w.phase)
            ELSE cfg.manual_phase
    IN  [phase |-> effective_phase,
         day_type |-> IF opted THEN day_type_default
                      ELSE Chosen(w.day_type, day_type_default),
         mode |-> IF opted THEN default_mode ELSE Chosen(w.mode, default_mode),
         week |-> selected_week,
         \* PHASE_LABELS[effective_phase] raises for a phase that is no key
         failed |-> IF effective_phase \in Phases THEN "none" ELSE "KeyError"]

Sidebar(log_df, cfg, w) ==
    Effective(get_logged_day_context(log_df, w.date), cfg, w)

-----------------------------------------------------------------------------
(* Grades and badges *)

\* get_daily_grade(minutes / 60): minutes is an integer, so the comparisons of
\* the double minutes / 60 with 2.5, 3.1, 3.9, 4.6 are those of 10 * minutes
\* with 25 * 60, 31 * 60, 39 * 60, 46 * 60
get_daily_grade_Exclusive(minutes) ==
    IF 10 * minutes <= 25 * 60 THEN "D-"
    ELSE IF 10 * minutes <= 31 * 60 THEN "A"
    ELSE IF 10 * minutes <= 39 * 60 THEN "B"
    ELSE IF 10 * minutes <= 46 * 60 THEN "C"
    ELSE "S"

get_daily_grade(minutes) ==
    IF 10 * minutes < 25 * 60 THEN "D-"
    ELSE IF 10 * minutes < 31 * 60 THEN "A"
    ELSE IF 10 * minutes < 39 * 60 THEN "B"
    ELSE IF 10 * minutes < 46 * 60 THEN "C"
    ELSE "S"

\* th = round(tm / 60, 1), in tenths of an hour.  For tm % 6 = 3 the quotient
\* ends in 5 hundredths and the direction depends on the binary value of
\* tm / 60 and on the arithmetic of the sum (a Python int or a numpy integer):
\* half_up is the direction taken.
RoundedTenths(tm, half_up) ==
    IF tm % 6 < 3 THEN tm \div 6
    ELSE IF tm % 6 > 3 THEN (tm \div 6) + 1
    ELSE IF half_up THEN (tm \div 6) + 1 ELSE tm \div 6

\* the weekly grade of the analysis tab, th in tenths
WeeklyGrade(th) ==
    IF th < 180 THEN "D-"
    ELSE IF th < 220 THEN "A"
    ELSE IF th < 270 THEN "B"
    ELSE IF th < 320 THEN "C"
    ELSE "S"

get_week_range(d) == [ws |-> d - WeekdayOf(d), we |-> d - WeekdayOf(d) + 6]

MinutesOf(rows) == SumSeq([i \in 1..Len(rows) |-> rows[i].estimated_minutes])

WeekRows(log_df, week_ref) ==
    SelectSeq(log_df, LAMBDA r : /\ r.date >= get_week_range(week_ref).ws
                                 /\ r.date <= get_week_range(week_ref).we)

\* the directions round() can take for the week's total
HalfOutcomes(log_df, week_ref) ==
    IF MinutesOf(WeekRows(log_df, week_ref)) % 6 = 3 THEN BOOLEAN ELSE {FALSE}

\* the weekly summary: nothing for a week without rows
WeeklySummary(log_df, week_ref, half_up) ==
    LET wd == WeekRows(log_df, week_ref)
    IN  IF wd = <<>> THEN <<>>
        ELSE << [tm |-> MinutesOf(wd), th |-> RoundedTenths(MinutesOf(wd), half_up),
                 grade |-> WeeklyGrade(RoundedTenths(MinutesOf(wd), half_up))] >>

StreakBadge(n) ==
    IF n >= 30 THEN << [of |-> "streak", tier |-> "gold"] >>
    ELSE IF n >= 14 THEN << [of |-> "streak", tier |-> "silver"] >>
    ELSE IF n >= 7 THEN << [of |-> "streak", tier |-> "bronze"] >>
    ELSE <<>>

SubjectBadge_Strict(sj) ==
    IF sj.completed_lectures >= sj.total_lectures
    THEN << [of |-> sj.name, tier |-> "gold"] >>
    ELSE IF 2 * sj.completed_lectures > sj.total_lectures
    THEN << [of |-> sj.name, tier |-> "silver"] >>
    ELSE <<>>

\* completed >= total * 0.5 is 2 * completed >= total on integers
SubjectBadge(sj) ==
    IF sj.completed_lectures >= sj.total_lectures
    THEN << [of |-> sj.name, tier |-> "gold"] >>
    ELSE IF 2 * sj.completed_lectures >= sj.total_lectures
    THEN << [of |-> sj.name, tier |-> "silver"] >>
    ELSE <<>>

RECURSIVE SubjectBadges(_)
SubjectBadges(subjs) ==
    IF subjs = <<>> THEN <<>>
    ELSE SubjectBadge(Head(subjs)) \o SubjectBadges(Tail(subjs))

\* log_df is not read
get_badges(log_df, subjs, n) == StreakBadge(n) \o SubjectBadges(subjs)

-----------------------------------------------------------------------------
(* Actions *)

Finish(run, op, args) ==
    /\ log' = run.log
    /\ subjects' = run.subjects
    /\ storedLog' = run.storedLog
    /\ storedSubjects' = run.storedSubjects
    /\ UNCHANGED <<config, storedConfig>>
    /\ last' = [op |-> op, args |-> args, writes |-> run.writes,
                failed |-> run.failed,
                \* the handler body ran (the script top did not raise)
                handled |-> run.at # "top",
                \* a check-in for a date that had rows
                had |-> op = "checkin" /\ RowsOf(log, args.date) # <<>>,
                \* a check-in with the arguments of the check-in just before
                repeat |-> op = "checkin" /\ last.op = "checkin"
                            /\ last.handled /\ last.args = args]
    /\ steps' = steps + 1

Session == RunOf(log, subjects, storedLog, storedSubjects)

\* fault is offered only when the call it names is reached
Hit(run, fault) == IF fault = NoFault THEN TRUE ELSE run.failed = fault.call

Checkin(a, fault) ==
    \E run \in {SaveHandler(Session, a, fault)} :
        Hit(run, fault) /\ Finish(run, "checkin", a)

\* a check-in with the day type the sidebar proposes for the date and the
\* sliders and the memo left as they are
SaveCheckin ==
    /\ steps < MaxSteps
    /\ \E d \in Dates, p \in Phases, m \in Modes, sb \in SubjectChoices(subjects) :
        \E t \in Ticks(CheckboxKeys(get_detailed_schedule(p, get_day_type(d), m))),
           fault \in Faults :
            Checkin(CheckinArgs(d, p, get_day_type(d), m, t, DefaultCondition, sb),
                    fault)

EditSubject ==
    /\ steps < MaxSteps
    /\ \E idx \in 1..Len(subjects), fault \in Faults :
        LET s == subjects[idx]
            edits ==
                {[s EXCEPT !.name = nn] : nn \in SubjectNames \ {s.name}}
                \cup {[s EXCEPT !.total_lectures = nt] :
                        nt \in Totals \ {s.total_lectures}}
                \cup {[s EXCEPT !.completed_lectures = nc] :
                        nc \in {v \in ManualCompleted : v <= s.total_lectures}
                                \ {s.completed_lectures}}
                \cup {[s EXCEPT !.active = ~s.active]}
        IN  \E new \in edits :
                \E run \in {EditHandler(Session, idx, new, fault)} :
                    Hit(run, fault) /\ Finish(run, "edit", [idx |-> idx, new |-> new])

DeleteSubject ==
    /\ steps < MaxSteps
    /\ \E idx \in 1..Len(subjects), fault \in Faults :
        \E run \in {DeleteHandler(Session, idx, fault)} :
            Hit(run, fault) /\ Finish(run, "delete", [idx |-> idx])

AddSubject ==
    /\ steps < MaxSteps
    /\ Len(subjects) < MaxSubjects
    /\ \E new_name \in SubjectNames, fault \in Faults :
        \E run \in {AddHandler(Session, new_name, NewTotal, fault)} :
            Hit(run, fault) /\ Finish(run, "add", [name |-> new_name])

\* any other interaction: the script runs from the top and nothing else happens
Rerun ==
    /\ steps < MaxSteps
    /\ \E fault \in Faults :
        \E run \in {sync_subjects_with_log(Session, fault, "top")} :
            Hit(run, fault) /\ Finish(run, "rerun", [none |-> TRUE])

Loaded ==
    [op |-> "load", args |-> [none |-> TRUE], writes |-> <<>>, failed |-> "none",
     handled |-> TRUE, had |-> FALSE, repeat |-> FALSE]

Init ==
    /\ log = <<>>
    /\ subjects = DefaultSubjects
    /\ storedLog = <<>>
    /\ storedSubjects = <<>>
    /\ storedConfig = <<>>
    /\ config = load_config(<<>>)
    /\ last = Loaded
    /\ steps = 0

Next == SaveCheckin \/ EditSubject \/ DeleteSubject \/ AddSubject \/ Rerun

Spec == Init /\ [][Next]_vars

-----------------------------------------------------------------------------
(* A script run without a button: the page it renders, and the settings tab. *)

\* what the tabs show; nothing when the sidebar raised
\* int((today_done / total) * 100): the floor of 100 * today_done / total,
\* except where the float product falls just below the integer (23 done rows
\* over 5, 10 or 20 blocks, among today_done <= 40 and total <= 20)
DashboardProgress(today_done, total) ==
    IF today_done = 23 /\ total \in {5, 10, 20}
    THEN ((100 * today_done) \div total) - 1
    ELSE (100 * today_done) \div total

\* today_done: the done rows of the selected date
TodayDone(log_df, d) == Len(SelectSeq(RowsOf(log_df, d), LAMBDA r : r.done))

Shown(run, sb, w, half_up) ==
    [streak |-> streak(run.log, Today),
     blocks |-> Len(get_detailed_schedule(sb.phase, sb.day_type, sb.mode)),
     today_done |-> TodayDone(run.log, w.date),
     progress |->
        DashboardProgress(TodayDone(run.log, w.date),
            Max(Len(get_checkable_blocks(sb.phase, sb.day_type, sb.mode)), 1)),
     total_possible |->
        SumSeq([i \in 1..Len(get_checkable_blocks(sb.phase, sb.day_type, sb.mode)) |->
                    get_checkable_blocks(sb.phase, sb.day_type, sb.mode)[i].minutes]),
     today_min |-> MinutesOf(RowsOf(run.log, w.date)),
     today_grade |-> get_daily_grade(MinutesOf(RowsOf(run.log, w.date))),
     badges |-> get_badges(run.log, run.subjects, streak(run.log, Today)),
     weekly |-> WeeklySummary(run.log, w.week_ref, half_up)]

Page(run, sb, w, half_up) ==
    [sidebar |-> sb,
     shown |-> IF sb.failed = "none" THEN <<Shown(run, sb, w, half_up)>> ELSE <<>>]

\* the script from the top: the sync of line 665, the sidebar, the tabs
ViewRun(w) ==
    \E run \in {sync_subjects_with_log(Session, NoFault, "top")} :
        \E half_up \in HalfOutcomes(run.log, w.week_ref) :
            Finish(run, "view",
                   [widgets |-> w,
                    page |-> Page(run, Sidebar(run.log, config, w), w, half_up)])

\* the settings tab's save button, reached when the sidebar did not raise:
\* config.update(...), save_config
SettingsRun(w, new_start, auto_flag, mp) ==
    \E run \in {sync_subjects_with_log(Session, NoFault, "top")} :
        /\ log' = run.log
        /\ subjects' = run.subjects
        /\ storedLog' = run.storedLog
        /\ storedSubjects' = run.storedSubjects
        /\ \E cfg \in {IF Sidebar(run.log, config, w).failed = "none"
                       THEN [start_date |-> new_start, auto_phase |-> auto_flag,
                             manual_phase |-> mp]
                       ELSE config} :
            /\ config' = cfg
            /\ storedConfig' = IF Sidebar(run.log, config, w).failed = "none"
                               THEN save_config(cfg) ELSE storedConfig
        /\ \E half_up \in HalfOutcomes(run.log, w.week_ref) :
            last' = [Loaded EXCEPT
                        !.op = "settings",
                        !.args = [widgets |-> w,
                                  page |-> Page(run, Sidebar(run.log, config, w), w,
                                                half_up)],
                        !.writes = run.writes,
                        !.handled = Sidebar(run.log, config, w).failed = "none"]
        /\ steps' = steps + 1

-----------------------------------------------------------------------------
(* One check-in with any selection.  The session starts in a state the     *)
(* program reaches by earlier runs: check-ins for yesterday and today and a *)
(* second subject added; an OFF day for today and the seed subject switched *)
(* off; a check-in for yesterday only.                                      *)

AllTicked(p, dt, m) == Range(CheckboxKeys(get_detailed_schedule(p, dt, m)))

Fresh == RunOf(<<>>, DefaultSubjects, <<>>, <<>>)

\* the session a completed run leaves to the next run
Next_Run(run) == RunOf(run.log, run.subjects, run.storedLog, run.storedSubjects)

Yesterday ==
    SaveHandler(Fresh,
        CheckinArgs(Today - 1, 2, "sun", "low", AllTicked(2, "sun", "low"),
                    EarlierCondition, "minbeop"),
        NoFault)

EarlierRuns ==
    { AddHandler(
        Next_Run(SaveHandler(Next_Run(Yesterday),
            CheckinArgs(Today, 4, "weekday", "normal",
                        AllTicked(4, "weekday", "normal"), EarlierCondition,
                        "minbeop"),
            NoFault)),
        "hyeongbeop", NewTotal, NoFault),
      EditHandler(
        Next_Run(SaveHandler(Fresh,
            CheckinArgs(Today, 1, "sat", "off", {}, EarlierCondition, "minbeop"),
            NoFault)),
        1, [DefaultSubjects[1] EXCEPT !.active = FALSE], NoFault),
      Yesterday }

InitCheckin ==
    /\ \E run \in EarlierRuns :
        /\ log = run.log
        /\ subjects = run.subjects
        /\ storedLog = run.storedLog
        /\ storedSubjects = run.storedSubjects
    /\ storedConfig = <<>>
    /\ config = load_config(<<>>)
    /\ last = Loaded
    /\ steps = 0

\* a check-in for today with any sidebar selection and any checkbox pattern
SaveAnyCheckin ==
    /\ steps < 1
    /\ \E p \in Phases, dt \in DayTypes, m \in Modes,
          sb \in SubjectChoices(subjects) :
        \E t \in SUBSET Range(CheckboxKeys(get_detailed_schedule(p, dt, m))) :
            Checkin(CheckinArgs(Today, p, dt, m, t, DefaultCondition, sb), NoFault)

NextCheckin == SaveAnyCheckin

SpecCheckin == InitCheckin /\ [][NextCheckin]_vars

-----------------------------------------------------------------------------
(* One script run of a fresh session with any widget values                  *)

PhasePicks == Phases \cup {NoPick}
DayTypePicks == DayTypes \cup {Untouched}
ModePicks == Modes \cup {Untouched}

ViewAny ==
    /\ steps < 1
    /\ \E d \in Dates, dt \in DayTypePicks, ph \in PhasePicks, m \in ModePicks :
        ViewRun(Widgets(d, TRUE, dt, ph, m, Today))

NextSchedule == ViewAny

SpecSchedule == Init /\ [][NextSchedule]_vars

-----------------------------------------------------------------------------
(* Sessions started on sheets that hold a config row and rows for today:     *)
(* script runs with the sidebar widgets untouched or one of them changed,    *)
(* and the settings tab.                                                     *)

MaxPhaseCell == 5        \* numeric manual_phase cells are 0..MaxPhaseCell
MaxSpan == 60            \* dates up to MaxSpan days around the start date

StartOffsets == {-2, 0, 7, 21, 42}
StartDates == {Today - k : k \in StartOffsets}
PhaseCells == {NumCell(n) : n \in 0..MaxPhaseCell} \cup {TextCell}

ConfigSheets ==
    {<<>>} \cup
    { << [start_date |-> s, auto_phase |-> BoolText(a), manual_phase |-> mp] >> :
        s \in StartDates, a \in {"TRUE", "FALSE"}, mp \in PhaseCells }

\* the log sheet an earlier session left for today: a low-mode Sunday schedule
\* of phase 2, nothing ticked
TodaySheet ==
    SaveHandler(Fresh,
        CheckinArgs(Today, 2, "sun", "low", {}, EarlierCondition, "minbeop"),
        NoFault).storedLog

\* the same rows with the phase cells emptied in the sheet
TodaySheetNoPhase == [i \in 1..Len(TodaySheet) |-> [TodaySheet[i] EXCEPT !.phase = TextCell]]

LogSheets == {<<>>, TodaySheet, TodaySheetNoPhase}

InitSidebar ==
    /\ storedConfig \in ConfigSheets
    /\ config = load_config(storedConfig)
    /\ storedLog \in LogSheets
    /\ log = load_log(storedLog)
    /\ subjects = DefaultSubjects
    /\ storedSubjects = <<>>
    /\ last = Loaded
    /\ steps = 0

\* the widgets as they are, or one of them changed
OnePick ==
    {<<Untouched, NoPick, Untouched>>}
    \cup {<<dt, NoPick, Untouched>> : dt \in DayTypes}
    \cup {<<Untouched, ph, Untouched>> : ph \in Phases}
    \cup {<<Untouched, NoPick, m>> : m \in Modes}

\* a second view in a row shows what the first would have shown
ViewSidebar ==
    /\ steps < MaxSteps
    /\ last.op # "view"
    /\ \E d \in Dates, use \in BOOLEAN, pick \in OnePick :
        ViewRun(Widgets(d, use, pick[1], pick[2], pick[3], Today))

SaveSettings ==
    /\ steps < MaxSteps
    /\ steps < 1
    /\ \E auto_flag \in BOOLEAN, mp \in Phases :
        SettingsRun(Widgets(Today, TRUE, Untouched, NoPick, Untouched, Today),
                    config.start_date, auto_flag, mp)

NextSidebar == ViewSidebar \/ SaveSettings

SpecSidebar == InitSidebar /\ [][NextSidebar]_vars

-----------------------------------------------------------------------------
(* Sessions that hold a log and subjects (loaded from the sheets, or left by *)
(* earlier runs), and one script run on them with the widgets untouched.     *)

MaxRows == 2             \* rows of a log with subjects
MaxDayMinutes == 300     \* minutes of today's row: 0..MaxDayMinutes
GradeWindow == 12        \* weekly totals within GradeWindow of a threshold
MaxStreak == 31          \* attended days in a row

\* a log row of a Saturday in phase 1
LogRow(d, block, done, minutes, subject) ==
    [date |-> d, phase |-> 1, day_type |-> "sat", mode |-> "normal",
     block |-> block, done |-> done, estimated_minutes |-> minutes,
     energy |-> 3, focus |-> 3, note |-> "", subject |-> subject]

Lecture2 == <<"(books)", "ojeon", "ingang", "2gang">>
Lecture1 == <<"(books)", "ingang", "1gang">>
Exercise == <<"(lifter)", "undong", "30bun">>

\* subject cells: missing, empty, the subjects' names, a name of no subject
SubjectCells ==
    {NA, <<"">>, <<"minbeop">>, <<"hyeongbeop">>, <<"haengjeongbeop">>}

SubjectRows ==
    {LogRow(Today, b, dn, 0, sc) :
        b \in {Lecture2, Lecture1, Exercise}, dn \in BOOLEAN, sc \in SubjectCells}

RECURSIVE LogsOf(_, _)
LogsOf(rows, n) ==
    IF n = 0 THEN {<<>>}
    ELSE LogsOf(rows, n - 1)
            \cup {Append(l, r) : l \in {x \in LogsOf(rows, n - 1) : Len(x) = n - 1},
                                 r \in rows}

TwoSubjects ==
    << [name |-> "minbeop", total_lectures |-> SeedTotal,
        completed_lectures |-> 1, active |-> TRUE],
       [name |-> "hyeongbeop", total_lectures |-> NewTotal,
        completed_lectures |-> 0, active |-> FALSE] >>

\* sessions with subjects named in the log
ProgressSessions ==
    {[log |-> l, subjects |-> sj] :
        l \in LogsOf(SubjectRows, MaxRows), sj \in {DefaultSubjects, TwoSubjects}}

WeeklyThresholds == {1080, 1320, 1620, 1920}
DayTotals == 0..MaxDayMinutes
WeekTotals ==
    {t + k : t \in WeeklyThresholds, k \in (0 - GradeWindow)..GradeWindow}

\* sessions with minutes: a row of the week before and today's row
GradeSessions ==
    {[log |-> << LogRow(Today - 7, Lecture1, TRUE, 600, NA),
                 LogRow(Today, Lecture1, TRUE, m, NA) >>,
      subjects |-> DefaultSubjects] : m \in DayTotals \cup WeekTotals}

\* one done row on each of the n days up to today
AttendedDays(n) == [i \in 1..n |-> LogRow(Today - n + i, Exercise, TRUE, 0, NA)]

OneSubject(completed, total) ==
    << [name |-> "minbeop", total_lectures |-> total,
        completed_lectures |-> completed, active |-> TRUE] >>

BadgeSubjects ==
    {OneSubject(c, t) : c \in 0..6, t \in {4, 5}}
    \cup {OneSubject(2, 4) \o [OneSubject(5, 5) EXCEPT ![1].name = "hyeongbeop"],
          OneSubject(0, 0)}

\* sessions with a streak and subjects under way
BadgeSessions ==
    {[log |-> AttendedDays(n), subjects |-> sj] :
        n \in 0..MaxStreak, sj \in BadgeSubjects}

InitLoaded ==
    /\ \E ses \in ProgressSessions \cup GradeSessions \cup BadgeSessions :
        /\ log = ses.log
        /\ subjects = ses.subjects
        /\ storedLog = [i \in 1..Len(ses.log) |-> StoredRow(ses.log[i])]
        /\ storedSubjects = ses.subjects
    /\ storedConfig = <<>>
    /\ config = load_config(<<>>)
    /\ last = Loaded
    /\ steps = 0

ViewToday ==
    /\ steps < 1
    /\ ViewRun(Widgets(Today, TRUE, Untouched, NoPick, Untouched, Today))

NextLoaded == ViewToday

SpecLoaded == InitLoaded /\ [][NextLoaded]_vars

-----------------------------------------------------------------------------
(* Sessions that an earlier check-in for today left, and one script run on   *)
(* them with any date, opt-in and widget values.                             *)

\* all boxes ticked, or none
TickPatterns(p, dt, m) == {AllTicked(p, dt, m), {}}

\* the session after a check-in for today on a fresh session
CheckedIn(p, dt, m, t) ==
    SaveHandler(Fresh,
        CheckinArgs(Today, p, dt, m, t, EarlierCondition, "minbeop"), NoFault)

CheckedInRuns ==
    UNION { {CheckedIn(p, dt, m, t) : t \in TickPatterns(p, dt, m)} :
                p \in Phases, dt \in DayTypes, m \in Modes }

InitDashboard ==
    /\ \E run \in CheckedInRuns :
        /\ log = run.log
        /\ subjects = run.subjects
        /\ storedLog = run.storedLog
        /\ storedSubjects = run.storedSubjects
    /\ storedConfig = <<>>
    /\ config = load_config(<<>>)
    /\ last = Loaded
    /\ steps = 0

ViewDashboard ==
    /\ steps < 1
    /\ \E d \in {Today - 1, Today}, use \in BOOLEAN, dt \in DayTypePicks,
          ph \in PhasePicks, m \in ModePicks :
        ViewRun(Widgets(d, use, dt, ph, m, Today))

NextDashboard == ViewDashboard

SpecDashboard == InitDashboard /\ [][NextDashboard]_vars

-----------------------------------------------------------------------------
(* Properties *)

\* a run of the routine tab's save button (a successful step of SaveCheckin)
Stepped == steps' = steps + 1
CheckinStep == Stepped /\ last'.op = "checkin"

\* date d has a done row that is not the OFF row
Attended(rows, d) ==
    \E i \in 1..Len(rows) :
        rows[i].date = d /\ rows[i].done = TRUE /\ rows[i].block # <<"OFF">>

\* the number of consecutive attended days today, today - 1, ...
RECURSIVE ConsecutiveDays(_, _)
ConsecutiveDays(rows, d) ==
    IF d < 1 \/ ~Attended(rows, d) THEN 0
    ELSE 1 + ConsecutiveDays(rows, d - 1)

\* C1: the attendance streak is the number of consecutive calendar days,
\* counted back from today, that each have a done row other than the OFF row;
\* it is 0 when today has none.
C1_StreakIsConsecutiveDays == streak(log, Today) = ConsecutiveDays(log, Today)

\* C2: a check-in repeated with the arguments of the check-in just before it
\* leaves the date's rows of the session log as they were, and the date's rows
\* of the stored log too when both saves went through.
C2_ResubmitIdempotent ==
    [][ (CheckinStep /\ last'.repeat) =>
            /\ RowsOf(log', last'.args.date) = RowsOf(log, last'.args.date)
            /\ (last.failed = "none" /\ last'.failed = "none") =>
                    RowsOf(storedLog', last'.args.date)
                        = RowsOf(storedLog, last'.args.date) ]_vars

C2_Witness ==
    /\ last.op = "checkin" /\ last.repeat /\ last.failed = "none"
    /\ Len(RowsOf(log, last.args.date)) > 1
    /\ RowsOf(storedLog, last.args.date) # <<>>

\* C3: a check-in for date d leaves for d exactly the rows it created, and
\* leaves the rows of every other date as they were; a run that raised before
\* the handler leaves the log alone.
C3_FullReplaceOfDate ==
    [][ CheckinStep =>
            IF last'.handled
            THEN /\ RowsOf(log', last'.args.date)
                        = NewRows(last'.args, SubjectOptions(subjects))
                 /\ \A d \in Dates \ {last'.args.date} :
                        RowsOf(log', d) = RowsOf(log, d)
                 /\ Len(log') = Len(log) - Len(RowsOf(log, last'.args.date))
                                    + Len(NewRows(last'.args, SubjectOptions(subjects)))
            ELSE log' = log ]_vars

C3_Witness ==
    /\ last.op = "checkin" /\ last.handled /\ last.had /\ ~last.repeat
    /\ \E i \in 1..Len(log) : log[i].date # last.args.date

\* the credits the log gives a subject name: its done rows' lecture credits
CreditsOf(rows, name) ==
    SumSeq([i \in 1..Len(rows) |->
                IF rows[i].subject = <<name>> /\ rows[i].done
                THEN get_lecture_increment(rows[i].block) ELSE 0])

\* C4: over a check-in or a bare script run no subject's completed_lectures
\* decreases, and a value above the credits of the log is kept.
C4_CompletedNeverDecreases ==
    [][ (Stepped /\ last'.op \in {"checkin", "rerun"}) =>
            /\ Len(subjects') = Len(subjects)
            /\ \A i \in 1..Len(subjects) :
                /\ subjects'[i].completed_lectures >= subjects[i].completed_lectures
                /\ subjects[i].completed_lectures > CreditsOf(log', subjects[i].name)
                    => subjects'[i].completed_lectures
                            = subjects[i].completed_lectures ]_vars

\* the log gives fewer credits than the count a former sync has set
C4_Witness ==
    /\ last.op = "checkin" /\ last.had /\ last.failed = "none"
    /\ \E i \in 1..Len(subjects) :
        /\ subjects[i].completed_lectures > CreditsOf(log, subjects[i].name)
        /\ subjects[i].completed_lectures \notin ManualCompleted

\* sync(log, subjects) as stated: max of the former value and the credits
MaxSync(rows, subjs) ==
    [i \in 1..Len(subjs) |->
        [subjs[i] EXCEPT !.completed_lectures =
                            Max(@, CreditsOf(rows, subjs[i].name))]]

\* C5: a sync leaves each subject with completed_lectures = max(former value,
\* credits of its name in the log), not clamped to total_lectures, and leaves
\* the other fields alone: a bare script run syncs with the log, a check-in
\* that ran its handler syncs with the log before and the log after it.
C5_SyncIsMaxOfCredits ==
    [][ /\ (Stepped /\ last'.op = "rerun") => subjects' = MaxSync(log, subjects)
        /\ (CheckinStep /\ last'.handled) =>
                subjects' = MaxSync(log', MaxSync(log, subjects)) ]_vars

\* a sync has set a count above total_lectures
C5_Witness ==
    /\ last.op = "checkin" /\ last.failed = "none"
    /\ \E i \in 1..Len(subjects) :
        /\ subjects[i].completed_lectures > subjects[i].total_lectures
        /\ subjects[i].completed_lectures = CreditsOf(log, subjects[i].name)

\* C6: in a check-in the handler saves the log before the sync of the handler
\* saves the subjects.
C6_LogSavedBeforeSubjects ==
    last.op = "checkin" =>
        \A i \in 1..Len(last.writes) :
            last.writes[i] = <<"handler", "subjects">> =>
                \E j \in 1..(i - 1) : last.writes[j] = <<"handler", "log">>

\* C7: a check-in whose save_log raises has no effect on the session log, the
\* session subjects and the stored subjects.
C7_FailedSaveHasNoEffect ==
    [][ (CheckinStep /\ last'.failed = "save_log") =>
            /\ log' = log
            /\ subjects' = subjects
            /\ storedSubjects' = storedSubjects ]_vars

\* the rows the last check-in left for its date
CheckinRows == RowsOf(log, last.args.date)
CheckinBlocks ==
    get_checkable_blocks(last.args.phase, last.args.day_type, last.args.mode)
CheckinSchedule ==
    get_detailed_schedule(last.args.phase, last.args.day_type, last.args.mode)
Written == last.op = "checkin" /\ last.args.mode # "off"

RowsAreBlocks(rows, blocks, ticked) ==
    /\ Len(rows) = Len(blocks)
    /\ \A i \in 1..Len(rows) :
        /\ rows[i].block = blocks[i].name
        /\ rows[i].done = (blocks[i].name \in ticked)
        /\ rows[i].estimated_minutes = IF rows[i].done THEN blocks[i].minutes ELSE 0
    /\ SumSeq([i \in 1..Len(rows) |-> rows[i].estimated_minutes])
        <= SumSeq([i \in 1..Len(blocks) |-> blocks[i].minutes])

\* C8: a check-in with mode other than off leaves one row per checkable block
\* of get_checkable_blocks, in its order and with its name, done as ticked,
\* estimated_minutes the block's minutes when done and 0 otherwise; the date's
\* minutes do not exceed the checkable blocks' minutes.
C8_RowsAreCheckableBlocks ==
    Written => RowsAreBlocks(CheckinRows, CheckinBlocks, last.args.ticked)

MixedRows(rows, blocks) ==
    \E i, j \in 1..Len(rows) :
        /\ rows[i].done /\ rows[i].estimated_minutes > 0
        /\ ~rows[j].done /\ blocks[j].minutes > 0

C8_Witness == Written /\ last.had /\ MixedRows(CheckinRows, CheckinBlocks)

\* the categories of the schedule items that have this block name
CategoriesOf(schedule, block) ==
    {schedule[i].category :
        i \in {k \in 1..Len(schedule) : CleanName(schedule[k].name) = block}}

SubjectOnStudyRows(rows, schedule, selected, some_active) ==
    \A i \in 1..Len(rows) :
        /\ rows[i].subject # NA <=>
                (CategoriesOf(schedule, rows[i].block) = {"study"} /\ some_active)
        /\ CategoriesOf(schedule, rows[i].block) = {"exercise"}
                => rows[i].subject = NA
        /\ rows[i].subject # NA => rows[i].subject = <<selected>>

\* C9: in a check-in with mode other than off a row has a subject exactly
\* when its block is a study block and an active subject exists; the rows of
\* exercise blocks have none, and a set subject is the selected one.
C9_SubjectOnStudyRowsOnly ==
    Written =>
        SubjectOnStudyRows(CheckinRows, CheckinSchedule, last.args.subject,
                           \E k \in 1..Len(subjects) : subjects[k].active)

SubjectAndNone(rows, name) ==
    \E i, j \in 1..Len(rows) : rows[i].subject = <<name>> /\ rows[j].subject = NA

\* the second of two active subjects is selected
C9_Witness ==
    /\ Written /\ last.args.subject = "hyeongbeop"
    /\ SubjectAndNone(CheckinRows, "hyeongbeop")

OffRowAlone(rows) ==
    /\ Len(rows) = 1
    /\ rows[1].block = <<"OFF">>
    /\ rows[1].done = TRUE
    /\ rows[1].estimated_minutes = 0
    /\ rows[1].subject = NA

\* C10: a check-in with mode off leaves the date with the OFF row alone (done,
\* 0 minutes, no subject) for every phase and day type, and does not raise;
\* the off schedule is one block and none of it is checkable.
C10_OffDayIsOneRow ==
    (last.op = "checkin" /\ last.args.mode = "off") =>
        /\ last.failed = "none"
        /\ OffRowAlone(CheckinRows)
        /\ CheckinBlocks = <<>>
        /\ Len(CheckinSchedule) = 1

\* an OFF day replaces a day that had twelve rows
C10_Witness ==
    /\ last.op = "checkin" /\ last.args.mode = "off" /\ last.had
    /\ Len(CheckinRows) = 1
    /\ \E i \in 1..Len(log) : log[i].date # last.args.date
    /\ last.args.phase = 4 /\ last.args.day_type = "sun"

\* no two rows have the same date and block
NoDuplicates(rows) ==
    \A i, j \in 1..Len(rows) :
        (rows[i].date = rows[j].date /\ rows[i].block = rows[j].block) => i = j

\* the stripped names of a schedule's items are pairwise distinct
DistinctNames(schedule) ==
    \A i, j \in 1..Len(schedule) :
        CleanName(schedule[i].name) = CleanName(schedule[j].name) => i = j

\* C11: from the empty log, after any check-ins (any dates, phases, day types,
\* modes, repeated or not, interleaved with the other script runs) the log has
\* at most one row per (date, block); the schedule a check-in was made for has
\* pairwise distinct stripped block names.
C11_OneRowPerDateAndBlock ==
    /\ NoDuplicates(log)
    /\ last.op = "checkin" => DistinctNames(CheckinSchedule)

\* a date that had rows is submitted again with other arguments
C11_Witness ==
    /\ last.op = "checkin" /\ last.had /\ ~last.repeat /\ last.failed = "none"
    /\ Len(CheckinRows) > 1

\* the page of the last script run, when it was rendered
Viewed == last.op \in {"view", "settings"} /\ last.args.page.shown # <<>>
ViewedSidebar == last.args.page.sidebar
ViewedPage == last.args.page.shown[1]

TotalMinutes(phase, day_type, mode) ==
    SumSeq([i \in 1..Len(get_checkable_blocks(phase, day_type, mode)) |->
                get_checkable_blocks(phase, day_type, mode)[i].minutes])

IncreasingInPhase(day_type, mode) ==
    /\ \A p \in Phases : get_detailed_schedule(p, day_type, mode) # <<>>
    /\ \A p \in Phases \ {4} :
            TotalMinutes(p, day_type, mode) < TotalMinutes(p + 1, day_type, mode)

\* C12: for the day type and the mode (normal or low) of a rendered page the
\* schedule of every phase is non-empty and the minutes of the checkable blocks
\* increase strictly from each phase to the next; the page shows the schedule
\* and the total of its own phase.
C12_MinutesIncreaseWithPhase ==
    (Viewed /\ ViewedSidebar.mode # "off") =>
        /\ IncreasingInPhase(ViewedSidebar.day_type, ViewedSidebar.mode)
        /\ ViewedPage.blocks > 0
        /\ ViewedPage.total_possible
                = TotalMinutes(ViewedSidebar.phase, ViewedSidebar.day_type,
                               ViewedSidebar.mode)

\* a low-mode Sunday in phase 4
C12_Witness ==
    /\ Viewed /\ ViewedSidebar.mode = "low" /\ ViewedSidebar.day_type = "sun"
    /\ ViewedSidebar.phase = 4
    /\ ViewedPage.total_possible > TotalMinutes(3, "sun", "low")

\* the widgets and the sidebar of the last view
ViewedWidgets == last.args.widgets
WidgetsUntouched ==
    /\ ViewedWidgets.day_type = Untouched
    /\ ViewedWidgets.phase = NoPick
    /\ ViewedWidgets.mode = Untouched

\* the precedence as stated, for the stored context ctx of the date (<<>> for
\* a date without rows) and the sidebar values sb
Precedence(ctx, cfg, w, sb) ==
    /\ (ctx # <<>> /\ w.use_saved_ctx) =>
            /\ sb.phase = ctx[1].phase
            /\ sb.day_type = ctx[1].day_type
            /\ sb.mode = ctx[1].mode
    /\ (~(ctx # <<>> /\ w.use_saved_ctx) /\ cfg.auto_phase) =>
            sb.phase = get_phase_by_week(get_week_number(cfg.start_date, w.date))
    /\ (~(ctx # <<>> /\ w.use_saved_ctx) /\ ~cfg.auto_phase) =>
            sb.phase = cfg.manual_phase
    \* without the opt-in the values are those of a date without rows
    /\ ~w.use_saved_ctx =>
            /\ sb.day_type = get_day_type(w.date)
            /\ sb.mode = "normal"

\* C13: with the widgets untouched, the effective phase, day type and mode of
\* a script run are the stored ones of the date's first row when the date has
\* rows and the opt-in is set; otherwise the phase is that of the week when
\* auto_phase is set and manual_phase when not; without the opt-in the stored
\* row has no influence on the day type and the mode.
C13_EffectivePrecedence ==
    (last.op = "view" /\ WidgetsUntouched) =>
        Precedence(get_logged_day_context(log, ViewedWidgets.date), config,
                   ViewedWidgets, ViewedSidebar)

\* C14: manual_phase is one of 1..4, and so is the effective phase of every
\* script run.
C14_PhaseInRange ==
    /\ config.manual_phase \in Phases
    /\ last.op \in {"view", "settings"} => ViewedSidebar.phase \in Phases

\* the week number and the phase as stated, for d - s = delta
WeekAsStated(delta, week) ==
    /\ week >= 1
    /\ delta < 0 => week = 1
    /\ delta >= 0 => (7 * (week - 1) <= delta /\ delta < 7 * week)

PhaseAsStated(week, phase) ==
    /\ week <= 1 => phase = 1
    /\ week \in 2..3 => phase = 2
    /\ week \in 4..6 => phase = 3
    /\ week >= 7 => phase = 4

AutoPhase(s, d) == get_phase_by_week(get_week_number(s, d))

\* C20: for the start date of the config and every date within MaxSpan days of
\* it, the week number is max(1, floor((d - s) / 7) + 1), the phase follows the
\* breakpoints 1, 3, 6 and does not decrease from a date to the next; a page
\* shows this week, and this phase when the phase selectbox is at its default.
C20_AutoPhaseMonotone ==
    /\ \A d \in (config.start_date - MaxSpan)..(config.start_date + MaxSpan) :
        /\ WeekAsStated(d - config.start_date,
                        get_week_number(config.start_date, d))
        /\ PhaseAsStated(get_week_number(config.start_date, d),
                         AutoPhase(config.start_date, d))
        /\ AutoPhase(config.start_date, d) <= AutoPhase(config.start_date, d + 1)
    /\ last.op = "view" =>
        /\ ViewedSidebar.week
                = get_week_number(config.start_date, ViewedWidgets.date)
        /\ (config.auto_phase /\ ViewedWidgets.phase = NoPick
                /\ (~ViewedWidgets.use_saved_ctx
                        \/ RowsOf(log, ViewedWidgets.date) = <<>>)) =>
                PhaseAsStated(ViewedSidebar.week, ViewedSidebar.phase)

\* the first day of week 7 is shown with phase 4, and a date before the start
\* date exists
C20_Witness ==
    /\ last.op = "view" /\ config.auto_phase /\ ViewedWidgets.phase = NoPick
    /\ ViewedWidgets.date - config.start_date = 42
    /\ ViewedSidebar.week = 7 /\ ViewedSidebar.phase = 4

\* C15: no two subjects of the list have the same name.
C15_SubjectNamesUnique ==
    \A i, j \in 1..Len(subjects) : subjects[i].name = subjects[j].name => i = j

\* the non-empty subject names of the rows
NamesIn(rows) ==
    {rows[i].subject[1] : i \in {k \in 1..Len(rows) : rows[k].subject # NA}} \ {""}

ProgressAsStated(rows, progress) ==
    /\ DOMAIN progress = NamesIn(rows)
    /\ \A n \in NamesIn(rows) : progress[n] = CreditsOf(rows, n)

\* C16: compute_subject_progress maps exactly the non-empty subject names of
\* the log, each to the credits of its done rows; a sync keeps the list of
\* subjects and changes no subject whose name the log does not give credits
\* above its count, whatever other names the log holds.
C16_ProgressPerSubject ==
    /\ ProgressAsStated(log, compute_subject_progress(log))
    /\ SyncedSubjects(log, subjects) = MaxSync(log, subjects)

\* the log names a subject of the list, a name of no subject and has a done
\* lecture row without subject
C16_Witness ==
    /\ last.op = "view"
    /\ CreditsOf(log, "haengjeongbeop") > 0
    /\ \E i \in 1..Len(log) : log[i].subject = <<"">> /\ log[i].done
    /\ Len(log) = 2

\* the minutes of the rows dated within the week (Monday to Sunday) of a date
WeekMinutes(rows, d) ==
    SumSeq([i \in 1..Len(rows) |->
                IF /\ rows[i].date >= d - WeekdayOf(d)
                   /\ rows[i].date <= d - WeekdayOf(d) + 6
                THEN rows[i].estimated_minutes ELSE 0])

\* the weekly grade by the thresholds on the minutes
WeeklyGradeAsStated(m) ==
    IF m < 1080 THEN "D-"
    ELSE IF m < 1320 THEN "A"
    ELSE IF m < 1620 THEN "B"
    ELSE IF m < 1920 THEN "C"
    ELSE "S"

\* C17: the weekly summary of a week whose rows total m minutes shows the
\* grade of hours = m / 60: D- below 1080 minutes, A below 1320, B below
\* 1620, C below 1920, S from 1920, for every integer m >= 0.
C17_WeeklyGradeByMinutes ==
    (Viewed /\ ViewedPage.weekly # <<>>) =>
        /\ ViewedPage.weekly[1].tm = WeekMinutes(log, ViewedWidgets.week_ref)
        /\ ViewedPage.weekly[1].grade = WeeklyGradeAsStated(ViewedPage.weekly[1].tm)

\* the minutes of the rows of a date
DayMinutes(rows, d) ==
    SumSeq([i \in 1..Len(rows) |->
                IF rows[i].date = d THEN rows[i].estimated_minutes ELSE 0])

DailyGradeAsStated(m) ==
    IF m < 150 THEN "D-"
    ELSE IF m < 186 THEN "A"
    ELSE IF m < 234 THEN "B"
    ELSE IF m < 276 THEN "C"
    ELSE "S"

GradeRank(grade) ==
    CASE grade = "D-" -> 0
      [] grade = "A" -> 1
      [] grade = "B" -> 2
      [] grade = "C" -> 3
      [] grade = "S" -> 4

\* C18: the dashboard shows, for a date whose rows total m minutes, the grade
\* D- if m < 150, A if 150 <= m < 186, B if 186 <= m < 234, C if
\* 234 <= m < 276, S if m >= 276 (lower bounds inclusive), and no smaller
\* total has a grade later in the order D-, A, B, C, S.
C18_DailyGradeByMinutes ==
    Viewed =>
        /\ ViewedPage.today_min = DayMinutes(log, ViewedWidgets.date)
        /\ ViewedPage.today_grade = DailyGradeAsStated(ViewedPage.today_min)
        /\ \A k \in 0..ViewedPage.today_min :
                GradeRank(get_daily_grade(k)) <= GradeRank(ViewedPage.today_grade)

\* a date at a lower bound: 186 minutes (3.1 hours) is a B
C18_Witness ==
    /\ Viewed
    /\ ViewedPage.today_min = 186
    /\ ViewedPage.today_grade = "B"

\* the positions of the badges of one holder (the streak, or a subject's name)
BadgesOf(badges, holder) == {i \in 1..Len(badges) : badges[i].of = holder}

\* no two subjects of the list share a name
OneRecordPerName(subjs) ==
    \A i, j \in 1..Len(subjs) : subjs[i].name = subjs[j].name => i = j

StreakTierAsStated(n) ==
    IF n >= 30 THEN "gold" ELSE IF n >= 14 THEN "silver" ELSE "bronze"

\* C19: the badges shown hold one streak badge from a streak of 7, of the
\* tier gold from 30, silver from 14, bronze from 7, and none below 7; for
\* each subject one badge when 2 * completed_lectures >= total_lectures, gold
\* when completed_lectures >= total_lectures and silver otherwise, and none
\* below half; there is no other badge.
C19_BadgesAsStated ==
    (Viewed /\ OneRecordPerName(subjects)) =>
        /\ Cardinality(BadgesOf(ViewedPage.badges, "streak"))
                = (IF ViewedPage.streak >= 7 THEN 1 ELSE 0)
        /\ \A i \in BadgesOf(ViewedPage.badges, "streak") :
                ViewedPage.badges[i].tier = StreakTierAsStated(ViewedPage.streak)
        /\ \A j \in 1..Len(subjects) :
            /\ Cardinality(BadgesOf(ViewedPage.badges, subjects[j].name))
                    = (IF 2 * subjects[j].completed_lectures >= subjects[j].total_lectures
                       THEN 1 ELSE 0)
            /\ \A i \in BadgesOf(ViewedPage.badges, subjects[j].name) :
                    ViewedPage.badges[i].tier
                        = (IF subjects[j].completed_lectures >= subjects[j].total_lectures
                           THEN "gold" ELSE "silver")
        /\ \A i \in 1..Len(ViewedPage.badges) :
                \/ ViewedPage.badges[i].of = "streak"
                \/ \E j \in 1..Len(subjects) :
                        ViewedPage.badges[i].of = subjects[j].name

\* a streak of 30 days with a subject at exactly half of its lectures
C19_Witness ==
    /\ Viewed
    /\ ViewedPage.streak = 30
    /\ \E j \in 1..Len(subjects) :
            /\ 2 * subjects[j].completed_lectures = subjects[j].total_lectures
            /\ subjects[j].total_lectures > 0
            /\ \E i \in BadgesOf(ViewedPage.badges, subjects[j].name) :
                    ViewedPage.badges[i].tier = "silver"
    /\ \E i \in BadgesOf(ViewedPage.badges, "streak") :
            ViewedPage.badges[i].tier = "gold"

\* the schedule of the page a run rendered
ViewedSchedule ==
    get_detailed_schedule(ViewedSidebar.phase, ViewedSidebar.day_type,
                          ViewedSidebar.mode)

\* C21: every block of a rendered schedule whose name contains the marker
\* "ingang 2gang" earns 2 lecture credits on a weekend schedule and 1 on a
\* weekday schedule.
C21_TwoLectureBlockCredits ==
    Viewed =>
        \A i \in 1..Len(ViewedSchedule) :
            Contains(ViewedSchedule[i].name, <<"ingang", "2gang">>) =>
                get_lecture_increment(ViewedSchedule[i].name)
                    = (IF ViewedSidebar.day_type = "weekday" THEN 1 ELSE 2)

\* C22: the progress the dashboard shows for the selected date is the done
\* rows of the date over max(1, checkable blocks of the schedule in effect),
\* as a percentage, and lies between 0 and 100, also when the date was logged
\* under another phase or mode than the one in effect.
C22_ProgressWithinRange ==
    Viewed =>
        /\ ViewedPage.today_done
                = Cardinality({i \in 1..Len(log) :
                                 log[i].date = ViewedWidgets.date /\ log[i].done})
        /\ ViewedPage.progress >= 0
        /\ ViewedPage.progress <= 100

====
